---- MODULE Spec2Model ----
(***************************************************************************)
(* Eco-Chain integrity core: the hash-linked ledger                        *)
(* (utils/blockchain_simulator.py) and the green-token generator           *)
(* (utils/token_generator.py).                                             *)
(*                                                                         *)
(* Representation of Python values.  Every Python value is a tagged tuple: *)
(*   <<"none">>, <<"int", n>>, <<"float", c>> (c = the value in            *)
(*   hundredths), <<"str", s>>, <<"dict", f>> (f a function from keys).    *)
(* A Python string s is a sequence of chunks of text.  A chunk is          *)
(*   <<"lit", t>>     the literal text t,                                  *)
(*   <<"num", n>>     the decimal digits of the integer n,                 *)
(*   <<"sha256", p>>  the 64 hexadecimal digits of SHA-256 of the text p.  *)
(* SHA-256 is treated as collision-free: two digests are equal exactly     *)
(* when their preimages are equal.  A digest is one chunk because a hex    *)
(* digest has a fixed width, so a concatenation of digests splits in one   *)
(* way only.                                                               *)
(***************************************************************************)
EXTENDS Integers, Sequences, FiniteSets, TLC

VARIABLES chain, last, token_data, token, other, tampered,
          leaves, leaves2, args, tokens, threads

vars == <<chain, last, token_data, token, other, tampered,
          leaves, leaves2, args, tokens, threads>>

\* The variables of the Merkle computations, of the calculator, of the token
\* registry and of the concurrent callers, which the ledger and the token
\* generator leave alone
aux == <<leaves, leaves2, args, tokens, threads>>

\* ---------------------------------------------------------------- bounds
MaxBlocks == 4
MaxTime == 1
MaxSuffix == 2
MaxList == 4
MaxIssued == 2
MaxMonths == 2

\* ------------------------------------------------------- Python values
PyNone == <<"none">>
PyInt(n) == <<"int", n>>
PyFloat(c) == <<"float", c>>
PyStr(s) == <<"str", s>>
PyDict(f) == <<"dict", f>>

Lit(t) == <<"lit", t>>
Text(t) == PyStr(<<Lit(t)>>)

isinstance_dict(v) == v[1] = "dict"

\* str + str
StrCat(a, b) == PyStr(a[2] \o b[2])

\* float(x) for a number x
ToFloat(v) == IF v[1] = "int" THEN PyFloat(100 * v[2]) ELSE v

\* dict.get(key) with the default None
DictGet(d, key) == IF key \in DOMAIN d[2] THEN d[2][key] ELSE PyNone

\* The keys used by the program, in the order sort_keys=True puts them.
SortedKeys ==
  << "baseline_kg", "business_type", "data", "emissions_kg",
     "emissions_reduced_kg", "energy_kwh", "hash", "index", "message",
     "month", "previous_hash", "reduction_percentage", "signature",
     "sme_id", "sme_name", "status", "timestamp", "token_id", "version" >>

RECURSIVE json_dumps(_)
RECURSIVE json_items(_, _, _)

\* The "key": value members of dict d for the keys SortedKeys[k..], joined
\* by ", ".  first is TRUE until a member has been written.
json_items(d, k, first) ==
  IF k > Len(SortedKeys) THEN << >>
  ELSE IF SortedKeys[k] \notin DOMAIN d THEN json_items(d, k + 1, first)
  ELSE (IF first THEN << >> ELSE <<Lit(", ")>>)
       \o <<Lit("\""), Lit(SortedKeys[k]), Lit("\""), Lit(": ")>>
       \o json_dumps(d[SortedKeys[k]])
       \o json_items(d, k + 1, FALSE)

\* json.dumps(v, sort_keys=True): the text of v.
json_dumps(v) ==
  CASE v[1] = "none"  -> <<Lit("null")>>
    [] v[1] = "int"   -> << <<"num", v[2]>> >>
    [] v[1] = "float" -> << <<"num", v[2] \div 100>>, Lit("."),
                            <<"num", v[2] % 100>> >>
    [] v[1] = "str"   -> <<Lit("\"")>> \o v[2] \o <<Lit("\"")>>
    [] v[1] = "dict"  -> <<Lit("{")>> \o json_items(v[2], 1, TRUE)
                           \o <<Lit("}")>>

\* hashlib.sha256(s.encode()).hexdigest() for a Python string s
sha256_hexdigest(s) == PyStr(<< <<"sha256", s[2]>> >>)

\* ------------------------------------------------------------- Block
calculate_hash(b) ==
  sha256_hexdigest(PyStr(json_dumps(PyDict(
    [ index |-> PyInt(b.index), timestamp |-> b.timestamp,
      data |-> b.data, previous_hash |-> b.previous_hash ]))))

\* Variant of Block: the hash is computed before previous_hash is assigned
Block_hash_before_link(index, timestamp, data, previous_hash) ==
  LET b == [ index |-> index, timestamp |-> timestamp, data |-> data,
             previous_hash |-> PyNone, hash |-> PyNone ]
  IN [b EXCEPT !.hash = calculate_hash(b), !.previous_hash = previous_hash]

\* Variant of Block: the constructor leaves the hash unset, to be computed
\* once the block is in the chain
Block_without_hash(index, timestamp, data, previous_hash) ==
  [ index |-> index, timestamp |-> timestamp, data |-> data,
    previous_hash |-> previous_hash, hash |-> PyNone ]

Block(index, timestamp, data, previous_hash) ==
  LET b == [ index |-> index, timestamp |-> timestamp, data |-> data,
             previous_hash |-> previous_hash, hash |-> PyNone ]
  IN [b EXCEPT !.hash = calculate_hash(b)]

\* datetime.now().isoformat() at the t-th instant of the clock
Timestamp(t) == PyStr(<<Lit("2024-01-01T00:00:"), <<"num", t>> >>)

Timestamps == { Timestamp(t) : t \in 1..MaxTime }

\* The instant a timestamp was taken at
Instant(ts) == ts[2][2][2]

\* The values datetime.now().isoformat() can return after it returned ts:
\* the clock does not run backwards
NotBefore(ts) == { Timestamp(t) : t \in Instant(ts)..MaxTime }

GenesisData == PyDict([message |-> Text("Genesis Block - Eco-Chain Initialized")])

create_genesis_block(c, ts) == Append(c, Block(0, ts, GenesisData, Text("0")))

\* Variant of get_latest_block: the first block is returned
get_latest_block_first(c) == c[1]

get_latest_block(c) == c[Len(c)]

\* Variant of add_block: links the new block to the hash the latest block
\* links to, not to the latest block's own hash
add_block_stale_link(c, token_data_, ts) ==
  LET latest_block == get_latest_block(c)
      new_block == Block(Len(c), ts, token_data_, latest_block.previous_hash)
  IN Append(c, new_block)

\* Variant of add_block: the index is taken after the insertion
add_block_index_off(c, token_data_, ts) ==
  LET latest_block == get_latest_block(c)
      new_block == Block(Len(c) + 1, ts, token_data_, latest_block.hash)
  IN Append(c, new_block)

add_block(c, token_data_, ts) ==
  LET latest_block == get_latest_block(c)
      new_block == Block(Len(c), ts, token_data_, latest_block.hash)
  IN Append(c, new_block)

RECURSIVE valid_from_no_link(_, _)
\* Variant of the loop of is_chain_valid: the link to the previous block is
\* not compared
valid_from_no_link(c, i) ==
  IF i >= Len(c) THEN TRUE
  ELSE LET current_block == c[i + 1]
       IN IF current_block.hash # calculate_hash(current_block) THEN FALSE
          ELSE valid_from_no_link(c, i + 1)

RECURSIVE valid_from(_, _)
\* The loop of is_chain_valid from the block at (0-based) position i.
valid_from(c, i) ==
  IF i >= Len(c) THEN TRUE
  ELSE LET current_block == c[i + 1]
           previous_block == c[i]
       IN IF current_block.hash # calculate_hash(current_block) THEN FALSE
          ELSE IF current_block.previous_hash # previous_block.hash THEN FALSE
          ELSE valid_from(c, i + 1)

is_chain_valid(c) == IF Len(c) = 0 THEN FALSE ELSE valid_from(c, 1)

RECURSIVE merkle_pairs_left_only(_, _)
\* Variant of merkle_pairs: the left hash of a pair is combined with itself,
\* the right hash is not read
merkle_pairs_left_only(hashes, i) ==
  IF i > Len(hashes) THEN << >>
  ELSE <<sha256_hexdigest(StrCat(hashes[i], hashes[i]))>>
       \o merkle_pairs_left_only(hashes, i + 2)

RECURSIVE merkle_pairs(_, _)
\* new_hashes: the hash of every consecutive pair of hashes[i..]
merkle_pairs(hashes, i) ==
  IF i > Len(hashes) THEN << >>
  ELSE <<sha256_hexdigest(StrCat(hashes[i], hashes[i + 1]))>>
       \o merkle_pairs(hashes, i + 2)

RECURSIVE merkle_loop_drop_odd(_)
\* Variant of the loop of get_merkle_root: the unpaired last hash of an odd
\* level is left out instead of being duplicated
merkle_loop_drop_odd(hashes) ==
  IF Len(hashes) > 1
  THEN LET padded == IF Len(hashes) % 2 # 0
                     THEN SubSeq(hashes, 1, Len(hashes) - 1)
                     ELSE hashes
       IN merkle_loop_drop_odd(merkle_pairs(padded, 1))
  ELSE hashes[1]

RECURSIVE merkle_loop(_)
\* The while loop of get_merkle_root over the list hashes.
merkle_loop(hashes) ==
  IF Len(hashes) > 1
  THEN LET padded == IF Len(hashes) % 2 # 0
                     THEN Append(hashes, hashes[Len(hashes)])
                     ELSE hashes
       IN merkle_loop(merkle_pairs(padded, 1))
  ELSE hashes[1]

get_merkle_root(c) ==
  IF c = << >> THEN PyNone
  ELSE merkle_loop([i \in 1..Len(c) |-> c[i].hash])

\* Variant of verify_token_by_hash: only the latest block is looked at
verify_token_by_hash_latest_only(c, token_hash) ==
  \E i \in {Len(c)} \cap DOMAIN c :
    isinstance_dict(c[i].data) /\ DictGet(c[i].data, "hash") = token_hash

verify_token_by_hash(c, token_hash) ==
  \E i \in 1..Len(c) :
    isinstance_dict(c[i].data) /\ DictGet(c[i].data, "hash") = token_hash

\* get_proof_of_inclusion(token_hash): the dictionary returned
get_proof_of_inclusion(c, token_hash) ==
  LET found == { i \in 1..Len(c) :
                   isinstance_dict(c[i].data)
                     /\ DictGet(c[i].data, "hash") = token_hash }
  IN IF found = {}
     THEN [ verified |-> FALSE,
            message |-> Text("Token not found in blockchain") ]
     ELSE LET i == CHOOSE j \in found : \A k \in found : j <= k
              block == c[i]
          IN [ verified |-> TRUE,
               block_index |-> i - 1,
               block_hash |-> block.hash,
               previous_hash |-> block.previous_hash,
               timestamp |-> block.timestamp,
               merkle_root |-> get_merkle_root(c),
               chain_valid |-> is_chain_valid(c) ]

\* ------------------------------------------- the lists the reads work on
\* Variant of get_merkle_root_lists: hashes is the list self.chain itself,
\* so the duplicate of an odd level is appended to the chain
get_merkle_root_lists_shared(c) ==
  LET hashes == [i \in 1..Len(c) |-> c[i].hash]
      odd == Len(hashes) > 1 /\ Len(hashes) % 2 # 0
  IN [ self_chain |-> IF odd THEN Append(c, c[Len(c)]) ELSE c,
       hashes |-> IF odd THEN Append(hashes, hashes[Len(hashes)])
                  ELSE hashes ]

\* The list objects of get_merkle_root after the first pass of its loop:
\* hashes is a new list built from self.chain, and hashes.append(hashes[-1])
\* appends to that list; the later passes work on new_hashes, a new list
\* again
get_merkle_root_lists(c) ==
  LET hashes == [i \in 1..Len(c) |-> c[i].hash]
      odd == Len(hashes) > 1 /\ Len(hashes) % 2 # 0
  IN [ self_chain |-> c,
       hashes |-> IF odd THEN Append(hashes, hashes[Len(hashes)])
                  ELSE hashes ]

\* find_block_by_hash(hash_value): the first block with that hash, or None
find_block_by_hash(c, hash_value) ==
  LET found == { i \in 1..Len(c) : c[i].hash = hash_value }
  IN IF found = {} THEN PyNone
     ELSE c[CHOOSE j \in found : \A k \in found : j <= k]

\* verify_block_by_hash(block_hash)
verify_block_by_hash(c, block_hash) ==
  \E i \in 1..Len(c) : c[i].hash = block_hash

\* ---------------------------------------------------- get_all_tokens
RECURSIVE tokens_from(_, _)
\* The payloads of the blocks c[i..] that are dictionaries with a token_id,
\* in chain order
tokens_from(c, i) ==
  IF i > Len(c) THEN << >>
  ELSE (IF isinstance_dict(c[i].data) /\ "token_id" \in DOMAIN c[i].data[2]
        THEN <<c[i].data>> ELSE << >>) \o tokens_from(c, i + 1)

\* Variant of get_all_tokens: the first appended block is skipped as well
get_all_tokens_skip_two(c) == tokens_from(c, 3)

\* get_all_tokens(): the token payloads, the genesis block excluded
get_all_tokens(c) == tokens_from(c, 2)

\* ------------------------------------------------------ export_chain
PyList(q) == <<"list", q>>

\* Block.to_dict()
to_dict(b) ==
  PyDict([ index |-> PyInt(b.index), timestamp |-> b.timestamp,
           data |-> b.data, previous_hash |-> b.previous_hash,
           hash |-> b.hash ])

\* The keys used by the program, in an order that agrees with the order in
\* which every dictionary of the program gets its keys (json.dumps without
\* sort_keys writes the keys in that order)
InsertionKeys ==
  << "token_id", "version", "sme_id", "sme_name", "business_type", "month",
     "energy_kwh", "emissions_kg", "baseline_kg", "emissions_reduced_kg",
     "reduction_percentage", "index", "timestamp", "status", "data",
     "previous_hash", "hash", "signature", "message" >>

\* The line break and the indentation json.dumps(indent=2) writes
Newline == Lit("\n")

RECURSIVE export_dumps_float_as_int(_)
RECURSIVE export_items_float_as_int(_, _, _)
RECURSIVE export_elements_float_as_int(_, _)

\* Variants of export_items, export_elements and export_dumps: a float is
\* written without its decimals
export_items_float_as_int(d, k, first) ==
  IF k > Len(InsertionKeys) THEN << >>
  ELSE IF InsertionKeys[k] \notin DOMAIN d
       THEN export_items_float_as_int(d, k + 1, first)
  ELSE (IF first THEN << >> ELSE <<Lit(",")>>)
       \o <<Newline, Lit("\""), Lit(InsertionKeys[k]), Lit("\""), Lit(": ")>>
       \o export_dumps_float_as_int(d[InsertionKeys[k]])
       \o export_items_float_as_int(d, k + 1, FALSE)

export_elements_float_as_int(q, i) ==
  IF i > Len(q) THEN << >>
  ELSE (IF i = 1 THEN << >> ELSE <<Lit(",")>>)
       \o <<Newline>> \o export_dumps_float_as_int(q[i])
       \o export_elements_float_as_int(q, i + 1)

export_dumps_float_as_int(v) ==
  CASE v[1] = "none"  -> <<Lit("null")>>
    [] v[1] = "int"   -> << <<"num", v[2]>> >>
    [] v[1] = "float" -> << <<"num", v[2] \div 100>> >>
    [] v[1] = "str"   -> <<Lit("\"")>> \o v[2] \o <<Lit("\"")>>
    [] v[1] = "dict"  -> IF DOMAIN v[2] = {} THEN <<Lit("{"), Lit("}")>>
                         ELSE <<Lit("{")>>
                              \o export_items_float_as_int(v[2], 1, TRUE)
                              \o <<Newline, Lit("}")>>
    [] v[1] = "list"  -> IF v[2] = << >> THEN <<Lit("["), Lit("]")>>
                         ELSE <<Lit("[")>>
                              \o export_elements_float_as_int(v[2], 1)
                              \o <<Newline, Lit("]")>>

RECURSIVE export_dumps(_)
RECURSIVE export_items(_, _, _)
RECURSIVE export_elements(_, _)

\* The members of dict d for the keys InsertionKeys[k..], each on a line of
\* its own, separated by ","
export_items(d, k, first) ==
  IF k > Len(InsertionKeys) THEN << >>
  ELSE IF InsertionKeys[k] \notin DOMAIN d THEN export_items(d, k + 1, first)
  ELSE (IF first THEN << >> ELSE <<Lit(",")>>)
       \o <<Newline, Lit("\""), Lit(InsertionKeys[k]), Lit("\""), Lit(": ")>>
       \o export_dumps(d[InsertionKeys[k]])
       \o export_items(d, k + 1, FALSE)

\* The elements q[i..] of a list, each on a line of its own
export_elements(q, i) ==
  IF i > Len(q) THEN << >>
  ELSE (IF i = 1 THEN << >> ELSE <<Lit(",")>>)
       \o <<Newline>> \o export_dumps(q[i]) \o export_elements(q, i + 1)

\* json.dumps(v, indent=2): the text of v
export_dumps(v) ==
  CASE v[1] = "none"  -> <<Lit("null")>>
    [] v[1] = "int"   -> << <<"num", v[2]>> >>
    [] v[1] = "float" -> << <<"num", v[2] \div 100>>, Lit("."),
                            <<"num", v[2] % 100>> >>
    [] v[1] = "str"   -> <<Lit("\"")>> \o v[2] \o <<Lit("\"")>>
    [] v[1] = "dict"  -> IF DOMAIN v[2] = {} THEN <<Lit("{"), Lit("}")>>
                         ELSE <<Lit("{")>> \o export_items(v[2], 1, TRUE)
                              \o <<Newline, Lit("}")>>
    [] v[1] = "list"  -> IF v[2] = << >> THEN <<Lit("["), Lit("]")>>
                         ELSE <<Lit("[")>> \o export_elements(v[2], 1)
                              \o <<Newline, Lit("]")>>

\* export_chain(): the JSON text of the list of the blocks' dictionaries
export_chain(c) ==
  PyStr(export_dumps(PyList([i \in 1..Len(c) |-> to_dict(c[i])])))

\* ------------------------------------------------- json.loads (rebuild)
\* The position of the first chunk of s at or after i that is not white
\* space
RECURSIVE SkipSpace(_, _)
SkipSpace(s, i) ==
  IF i <= Len(s) /\ s[i] = Newline THEN SkipSpace(s, i + 1) ELSE i

\* The position of the first quote of s at or after i
RECURSIVE NextQuote(_, _)
NextQuote(s, i) == IF s[i] = Lit("\"") THEN i ELSE NextQuote(s, i + 1)

RECURSIVE parse_value(_, _)
RECURSIVE parse_members(_, _, _)
RECURSIVE parse_elements(_, _, _)

\* The members of an object from position i of s (after "{" or ","), added
\* to the function f: the dictionary and the position after "}"
parse_members(s, i, f) ==
  LET k == SkipSpace(s, i)
  IN IF s[k] = Lit("}") THEN [val |-> PyDict(f), next |-> k + 1]
     ELSE IF s[k] = Lit(",") THEN parse_members(s, k + 1, f)
     ELSE \* "key": value
       LET key == s[k + 1][2]
           v == parse_value(s, k + 4)
       IN parse_members(s, v.next, [x \in DOMAIN f \cup {key} |->
                                      IF x = key THEN v.val ELSE f[x]])

\* The elements of an array from position i of s, appended to q
parse_elements(s, i, q) ==
  LET k == SkipSpace(s, i)
  IN IF s[k] = Lit("]") THEN [val |-> PyList(q), next |-> k + 1]
     ELSE IF s[k] = Lit(",") THEN parse_elements(s, k + 1, q)
     ELSE LET v == parse_value(s, k)
          IN parse_elements(s, v.next, Append(q, v.val))

\* The JSON value that starts at position i of s and the position after it
parse_value(s, i) ==
  LET k == SkipSpace(s, i)
  IN CASE s[k] = Lit("null") -> [val |-> PyNone, next |-> k + 1]
       [] s[k][1] = "num" ->
            IF k + 2 <= Len(s) /\ s[k + 1] = Lit(".")
            THEN [val |-> PyFloat(100 * s[k][2] + s[k + 2][2]), next |-> k + 3]
            ELSE [val |-> PyInt(s[k][2]), next |-> k + 1]
       [] s[k] = Lit("\"") ->
            LET j == NextQuote(s, k + 1)
            IN [val |-> PyStr(SubSeq(s, k + 1, j - 1)), next |-> j + 1]
       [] s[k] = Lit("{") -> parse_members(s, k + 1, << >>)
       [] s[k] = Lit("[") -> parse_elements(s, k + 1, << >>)

\* json.loads(text)
json_loads(text) == parse_value(text[2], 1).val

\* The chain rebuilt from an export: every entry's index, timestamp, data
\* and previous_hash are given to Block, which recomputes the hash
rebuild_chain(text) ==
  LET entries == json_loads(text)[2]
  IN [i \in 1..Len(entries) |->
        Block(entries[i][2]["index"][2], entries[i][2]["timestamp"],
              entries[i][2]["data"], entries[i][2]["previous_hash"])]

\* ------------------------------------------------- demo_merkle_tree
\* The outcome of a call that recurses without end
RecursionError == <<"error", "RecursionError">>

RECURSIVE demo_new_level(_, _)
\* new_level: the pairs of hashes[i..] (1-based i); an unpaired last hash
\* is combined with itself
demo_new_level(hashes, i) ==
  IF i > Len(hashes) THEN << >>
  ELSE LET combined == IF i + 1 <= Len(hashes)
                       THEN StrCat(hashes[i], hashes[i + 1])
                       ELSE StrCat(hashes[i], hashes[i])
       IN <<sha256_hexdigest(combined)>> \o demo_new_level(hashes, i + 2)

RECURSIVE demo_create_merkle_root(_)
\* create_merkle_root of demo.py.  On the empty list the function calls
\* itself with the empty list again, without end.
demo_create_merkle_root(hashes) ==
  IF Len(hashes) = 1 THEN hashes[1]
  ELSE IF Len(hashes) = 0 THEN RecursionError
  ELSE demo_create_merkle_root(demo_new_level(hashes, 1))

\* ------------------------------------------ create_merkle_root (app.py)
RECURSIVE new_level_carry_unpaired(_, _)
\* Variant of new_level: an unpaired last hash is carried to the next level
\* as it is, without being combined with itself
new_level_carry_unpaired(hashes, i) ==
  IF i > Len(hashes) THEN << >>
  ELSE IF i + 1 <= Len(hashes)
       THEN <<sha256_hexdigest(StrCat(hashes[i], hashes[i + 1]))>>
            \o new_level_carry_unpaired(hashes, i + 2)
       ELSE <<hashes[i]>>

RECURSIVE new_level(_, _)
\* new_level: the pairs of hashes[i..] (1-based i); an unpaired last hash
\* is combined with itself
new_level(hashes, i) ==
  IF i > Len(hashes) THEN << >>
  ELSE LET combined == IF i + 1 <= Len(hashes)
                       THEN StrCat(hashes[i], hashes[i + 1])
                       ELSE StrCat(hashes[i], hashes[i])
       IN <<sha256_hexdigest(combined)>> \o new_level(hashes, i + 2)

RECURSIVE create_merkle_root_stop_at_two(_)
\* Variant of create_merkle_root: the recursion stops one level early, at a
\* list of two hashes, and returns the first of them
create_merkle_root_stop_at_two(hashes) ==
  IF Len(hashes) = 0 THEN sha256_hexdigest(Text("empty"))
  ELSE IF Len(hashes) <= 2 THEN hashes[1]
  ELSE create_merkle_root_stop_at_two(new_level(hashes, 1))

RECURSIVE create_merkle_root(_)
\* create_merkle_root(hashes) of the registry view
create_merkle_root(hashes) ==
  IF Len(hashes) = 0 THEN sha256_hexdigest(Text("empty"))
  ELSE IF Len(hashes) = 1 THEN hashes[1]
  ELSE create_merkle_root(new_level(hashes, 1))

\* The list objects of create_merkle_root(hashes) after the call: the
\* pairs are appended to new_level, a new list, and the recursive call is
\* given new_level
create_merkle_root_lists(hashes) ==
  [ hashes |-> hashes,
    new_level |-> IF Len(hashes) > 1 THEN new_level(hashes, 1) ELSE << >> ]

\* ------------------------------------------------ GreenTokenGenerator
version == Text("1.0")

\* str.upper() on the texts of the model
UpperText(t) ==
  CASE t = "sme001" -> "SME001"
    [] t = "2024-q1" -> "2024-Q1"
    [] t = "Current Period" -> "CURRENT PERIOD"
    [] OTHER -> t

upper(s) ==
  PyStr([i \in 1..Len(s[2]) |->
          IF s[2][i][1] = "lit" THEN Lit(UpperText(s[2][i][2])) ELSE s[2][i]])

\* str(uuid.uuid4())[:8] for the k-th value the generator can draw
uuid4_prefix(k) == PyStr(<< <<"uuid", k>> >>)

_generate_token_id(td, k) ==
  LET base == StrCat(StrCat(td[2]["sme_id"], Text("-")), td[2]["month"])
      unique_suffix == uuid4_prefix(k)
  IN upper(StrCat(StrCat(StrCat(Text("GT-"), base), Text("-")), unique_suffix))

\* The value of a number in hundredths
Cents(v) == IF v[1] = "int" THEN 100 * v[2] ELSE v[2]

\* n / d rounded to the nearest integer, ties to even (d > 0)
RoundDiv(n, d) ==
  LET q == n \div d
      r == n % d
  IN IF 2 * r < d THEN q
     ELSE IF 2 * r > d THEN q + 1
     ELSE IF q % 2 = 0 THEN q ELSE q + 1

\* One step of the long division by d: the pair <<quotient, remainder>> qr
\* taken one decimal place further
DivStep(qr, d) == <<qr[1] * 10 + (qr[2] * 10) \div d, (qr[2] * 10) % d>>

\* n * 10000 / d rounded to the nearest integer, ties to even (d > 0); the
\* quotient is taken place by place, so that no product leaves 32 bits
RoundDiv10000(n, d) ==
  LET qr == DivStep(DivStep(DivStep(DivStep(<<n \div d, n % d>>, d), d), d), d)
      q == qr[1]
      r == qr[2]
  IN IF 2 * r < d THEN q
     ELSE IF 2 * r > d THEN q + 1
     ELSE IF q % 2 = 0 THEN q ELSE q + 1

_calculate_reduction_pct(reduction, baseline) ==
  IF Cents(baseline) = 0 THEN PyFloat(0)
  ELSE PyFloat(RoundDiv10000(Cents(reduction), Cents(baseline)))

\* Variant of _generate_hash: token_id is left out of the hashed copy
_generate_hash_no_id(tok) ==
  LET token_copy == [k \in DOMAIN tok[2] \ {"hash", "signature", "token_id"}
                       |-> tok[2][k]]
      token_string == PyStr(json_dumps(PyDict(token_copy)))
  IN sha256_hexdigest(token_string)

\* Variant of _generate_hash: only the fields the signature is built from
\* are hashed
_generate_hash_critical_only(tok) ==
  LET token_copy == [k \in DOMAIN tok[2] \cap {"token_id", "timestamp"}
                       |-> tok[2][k]]
      token_string == PyStr(json_dumps(PyDict(token_copy)))
  IN sha256_hexdigest(token_string)

_generate_hash(tok) ==
  LET token_copy == [k \in DOMAIN tok[2] \ {"hash", "signature"} |-> tok[2][k]]
      token_string == PyStr(json_dumps(PyDict(token_copy)))
  IN sha256_hexdigest(token_string)

_generate_signature(tok) ==
  LET signature_data ==
        StrCat(StrCat(tok[2]["token_id"], tok[2]["timestamp"]), tok[2]["hash"])
  IN sha256_hexdigest(signature_data)

\* Variant of generate_token: the hash is taken over the quantities as they
\* were passed in, before float() is applied
generate_token_hash_raw(td, k, now) ==
  LET token_id == _generate_token_id(td, k)
      t0 == [ token_id |-> token_id,
              version |-> version,
              sme_id |-> td[2]["sme_id"],
              sme_name |-> td[2]["sme_name"],
              business_type |-> td[2]["business_type"],
              month |-> td[2]["month"],
              energy_kwh |-> ToFloat(td[2]["energy_kwh"]),
              emissions_kg |-> ToFloat(td[2]["emissions_kg"]),
              baseline_kg |-> ToFloat(td[2]["baseline_kg"]),
              emissions_reduced_kg |-> ToFloat(td[2]["emissions_reduced_kg"]),
              reduction_percentage |->
                _calculate_reduction_pct(td[2]["emissions_reduced_kg"],
                                         td[2]["baseline_kg"]),
              timestamp |-> IF "timestamp" \in DOMAIN td[2]
                            THEN td[2]["timestamp"] ELSE now,
              status |-> Text("verified") ]
      raw == [t0 EXCEPT !.energy_kwh = td[2]["energy_kwh"],
                        !.emissions_kg = td[2]["emissions_kg"],
                        !.baseline_kg = td[2]["baseline_kg"],
                        !.emissions_reduced_kg = td[2]["emissions_reduced_kg"]]
      t1 == t0 @@ [hash |-> _generate_hash(PyDict(raw))]
      t2 == t1 @@ [signature |-> _generate_signature(PyDict(t1))]
  IN PyDict(t2)

\* generate_token(token_data); k is the draw of uuid4 and now the clock
generate_token(td, k, now) ==
  LET token_id == _generate_token_id(td, k)
      t0 == [ token_id |-> token_id,
              version |-> version,
              sme_id |-> td[2]["sme_id"],
              sme_name |-> td[2]["sme_name"],
              business_type |-> td[2]["business_type"],
              month |-> td[2]["month"],
              energy_kwh |-> ToFloat(td[2]["energy_kwh"]),
              emissions_kg |-> ToFloat(td[2]["emissions_kg"]),
              baseline_kg |-> ToFloat(td[2]["baseline_kg"]),
              emissions_reduced_kg |-> ToFloat(td[2]["emissions_reduced_kg"]),
              reduction_percentage |->
                _calculate_reduction_pct(td[2]["emissions_reduced_kg"],
                                         td[2]["baseline_kg"]),
              timestamp |-> IF "timestamp" \in DOMAIN td[2]
                            THEN td[2]["timestamp"] ELSE now,
              status |-> Text("verified") ]
      t1 == t0 @@ [hash |-> _generate_hash(PyDict(t0))]
      t2 == t1 @@ [signature |-> _generate_signature(PyDict(t1))]
  IN PyDict(t2)

\* Variant of verify_token: the stored hash is taken out of the dictionary
\* with pop() instead of being read
verify_token_pop(tok) ==
  IF "hash" \notin DOMAIN tok[2] THEN [ret |-> FALSE, token |-> tok]
  ELSE LET original_hash == tok[2]["hash"]
           popped == PyDict([k \in DOMAIN tok[2] \ {"hash"} |-> tok[2][k]])
           recalculated_hash == _generate_hash(popped)
       IN [ret |-> (original_hash = recalculated_hash), token |-> popped]

\* verify_token(token): the value returned and the dictionary after the call
verify_token(tok) ==
  IF "hash" \notin DOMAIN tok[2] THEN [ret |-> FALSE, token |-> tok]
  ELSE LET original_hash == tok[2]["hash"]
           recalculated_hash == _generate_hash(tok)
       IN [ret |-> (original_hash = recalculated_hash), token |-> tok]

\* --------------------------------------------------- CarbonCalculator
\* Quantities are exact: a percentage and an emission factor are integers
\* in hundredths, a baseline and a multiplier are integers in twentieths, a
\* result of round(x, 2) is a float in hundredths.
\* kg CO2 per kWh, in hundredths
EMISSION_FACTORS == [grid_electricity |-> 92, solar |-> 5]

\* Industry baselines, kg CO2 per kWh, in twentieths
CALC_INDUSTRY_BASELINES ==
  [ bt \in {"Manufacturing", "Textile", "Food Processing", "Retail",
            "Technology", "default"} |->
      CASE bt = "Manufacturing" -> 21
        [] bt = "Textile" -> 23
        [] bt = "Food Processing" -> 19
        [] bt = "Retail" -> 17
        [] bt = "Technology" -> 18
        [] bt = "default" -> 20 ]

\* Efficiency multipliers, in twentieths
EFFICIENCY_FACTORS == [low |-> 24, medium |-> 20, high |-> 17]

\* raise ValueError(msg)
ValueError(msg) == <<"error", "ValueError", msg>>

IsError(v) == v[1] = "error"

\* Variant of _get_efficiency_multiplier: the lower bounds of the bands are
\* exclusive
_get_efficiency_multiplier_exclusive(efficiency_pct) ==
  IF efficiency_pct > 85 THEN EFFICIENCY_FACTORS.high
  ELSE IF efficiency_pct > 70 THEN EFFICIENCY_FACTORS.medium
  ELSE EFFICIENCY_FACTORS.low

_get_efficiency_multiplier(efficiency_pct) ==
  IF efficiency_pct >= 85 THEN EFFICIENCY_FACTORS.high
  ELSE IF efficiency_pct >= 70 THEN EFFICIENCY_FACTORS.medium
  ELSE EFFICIENCY_FACTORS.low

\* Variant of _get_industry_factor: the factor is the industry's baseline
_get_industry_factor_by_industry(business_type) ==
  IF business_type \in DOMAIN CALC_INDUSTRY_BASELINES
  THEN CALC_INDUSTRY_BASELINES[business_type]
  ELSE CALC_INDUSTRY_BASELINES["default"]

\* The industry factor, in twentieths: 1.0 for every business type
_get_industry_factor(business_type) == 20

\* The value of the function as the argument x is clamped into [lo, hi]
Clamp(x, lo, hi) == IF x < lo THEN lo ELSE IF x > hi THEN hi ELSE x

\* Variant of calculate_emissions: an efficiency outside [0, 100] is clamped
\* into the range instead of being rejected
calculate_emissions_clamp_efficiency(energy_kwh, business_type, renewable_pct, efficiency) ==
  IF energy_kwh < 0
  THEN ValueError("Energy consumption cannot be negative")
  ELSE IF ~(0 <= renewable_pct /\ renewable_pct <= 100)
  THEN ValueError("Renewable percentage must be between 0 and 100")
  ELSE
    LET renewable_fraction == renewable_pct
        grid_fraction == 100 - renewable_fraction
        grid_emissions == energy_kwh * grid_fraction * EMISSION_FACTORS.grid_electricity
        renewable_emissions == energy_kwh * renewable_fraction * EMISSION_FACTORS.solar
        base_emissions == grid_emissions + renewable_emissions
        efficiency_multiplier == _get_efficiency_multiplier(Clamp(efficiency, 0, 100))
        adjusted_emissions == base_emissions * efficiency_multiplier
        industry_factor == _get_industry_factor(business_type)
        final_emissions == adjusted_emissions * industry_factor
    IN PyFloat(RoundDiv(final_emissions, 40000))

\* calculate_emissions(energy_kwh, business_type, renewable_pct, efficiency).
\* The fractions are in hundredths, grid_emissions, renewable_emissions and
\* base_emissions in units of 1/10000, adjusted_emissions in units of
\* 1/200000, final_emissions in units of 1/4000000; round(final_emissions, 2)
\* is in hundredths.
calculate_emissions(energy_kwh, business_type, renewable_pct, efficiency) ==
  IF energy_kwh < 0
  THEN ValueError("Energy consumption cannot be negative")
  ELSE IF ~(0 <= renewable_pct /\ renewable_pct <= 100)
  THEN ValueError("Renewable percentage must be between 0 and 100")
  ELSE IF ~(0 <= efficiency /\ efficiency <= 100)
  THEN ValueError("Efficiency must be between 0 and 100")
  ELSE
    LET renewable_fraction == renewable_pct
        grid_fraction == 100 - renewable_fraction
        grid_emissions == energy_kwh * grid_fraction * EMISSION_FACTORS.grid_electricity
        renewable_emissions == energy_kwh * renewable_fraction * EMISSION_FACTORS.solar
        base_emissions == grid_emissions + renewable_emissions
        efficiency_multiplier == _get_efficiency_multiplier(efficiency)
        adjusted_emissions == base_emissions * efficiency_multiplier
        industry_factor == _get_industry_factor(business_type)
        final_emissions == adjusted_emissions * industry_factor
    IN PyFloat(RoundDiv(final_emissions, 40000))

\* get_baseline_emissions(energy_kwh, business_type): the product of a whole
\* number of kWh and a factor in twentieths is a whole number of hundredths
get_baseline_emissions(energy_kwh, business_type) ==
  LET baseline_factor ==
        IF business_type \in DOMAIN CALC_INDUSTRY_BASELINES
        THEN CALC_INDUSTRY_BASELINES[business_type]
        ELSE CALC_INDUSTRY_BASELINES["default"]
  IN PyFloat(energy_kwh * baseline_factor * 5)

\* Variant of calculate_reduction_percentage: a result below zero is
\* returned as zero
calculate_reduction_percentage_clamped(actual_emissions, baseline_emissions) ==
  IF Cents(baseline_emissions) = 0 THEN PyInt(0)
  ELSE LET reduction == Cents(baseline_emissions) - Cents(actual_emissions)
           reduction_pct == RoundDiv(reduction * 10000, Cents(baseline_emissions))
       IN PyFloat(IF reduction_pct < 0 THEN 0 ELSE reduction_pct)

\* calculate_reduction_percentage(actual_emissions, baseline_emissions): the
\* percentage, rounded to hundredths
calculate_reduction_percentage(actual_emissions, baseline_emissions) ==
  IF Cents(baseline_emissions) = 0 THEN PyInt(0)
  ELSE LET reduction == Cents(baseline_emissions) - Cents(actual_emissions)
           reduction_pct == RoundDiv(reduction * 10000, Cents(baseline_emissions))
       IN PyFloat(reduction_pct)

\* ------------------------------------------- issue_green_token (app.py)
\* Industry baseline energy consumption of the application, kWh per month
APP_INDUSTRY_BASELINES ==
  [ bt \in {"Textile Manufacturing", "Food Processing", "Small Manufacturing",
            "Retail/Commercial", "Technology/Services"} |->
      CASE bt = "Textile Manufacturing" -> 15000
        [] bt = "Food Processing" -> 12000
        [] bt = "Small Manufacturing" -> 10000
        [] bt = "Retail/Commercial" -> 5000
        [] bt = "Technology/Services" -> 3000 ]

\* The token_data of issue_green_token, built once both calculations
\* returned
issue_token_data(a, actual_emissions_kg, baseline_emissions_kg, now) ==
  PyDict([ sme_id |-> a.sme_id,
           sme_name |-> a.sme_name,
           business_type |-> Text(a.business_type),
           month |-> a.month,
           energy_kwh |-> ToFloat(PyInt(a.energy_consumed)),
           emissions_kg |-> ToFloat(actual_emissions_kg),
           baseline_kg |-> ToFloat(baseline_emissions_kg),
           emissions_reduced_kg |-> ToFloat(a.emissions_reduced_kg),
           timestamp |-> now ])

\* Variant of issue_green_token: the block is appended with the request as
\* its payload before the emissions are calculated
issue_green_token_append_first(c, registry, a, k, now, ts) ==
  LET early == add_block(c, PyDict([sme_id |-> a.sme_id]), ts)
      actual_emissions_kg ==
        calculate_emissions(a.energy_consumed, a.business_type, 0, 80)
  IN IF IsError(actual_emissions_kg)
     THEN [chain |-> early, tokens |-> registry, ret |-> actual_emissions_kg]
     ELSE
       LET baseline_kwh ==
             IF a.business_type \in DOMAIN APP_INDUSTRY_BASELINES
             THEN APP_INDUSTRY_BASELINES[a.business_type] ELSE 10000
           baseline_emissions_kg ==
             get_baseline_emissions(baseline_kwh, a.business_type)
           tok == generate_token(
                    issue_token_data(a, actual_emissions_kg,
                                     baseline_emissions_kg, now), k, now)
       IN [ chain |-> add_block(c, tok, ts),
            tokens |-> Append(registry, tok),
            ret |-> tok ]

\* issue_green_token with the arguments a: the chain and the registry after
\* the call and the value returned (the exception raised, if any).  k is
\* the draw of uuid4, now the clock when token_data is built and ts the
\* clock when the block is built.
issue_green_token(c, registry, a, k, now, ts) ==
  LET actual_emissions_kg ==
        calculate_emissions(a.energy_consumed, a.business_type, 0, 80)
  IN IF IsError(actual_emissions_kg)
     THEN [chain |-> c, tokens |-> registry, ret |-> actual_emissions_kg]
     ELSE
       LET baseline_kwh ==
             IF a.business_type \in DOMAIN APP_INDUSTRY_BASELINES
             THEN APP_INDUSTRY_BASELINES[a.business_type] ELSE 10000
           baseline_emissions_kg ==
             get_baseline_emissions(baseline_kwh, a.business_type)
           tok == generate_token(
                    issue_token_data(a, actual_emissions_kg,
                                     baseline_emissions_kg, now), k, now)
       IN [ chain |-> add_block(c, tok, ts),
            tokens |-> Append(registry, tok),
            ret |-> tok ]

\* ---------------------------------------------- show_calculator (app.py)
\* x / 1000 for an amount x in kg: the amount in tonnes, held in units of
\* 1/100000 of a tonne (the float error of the division is not modelled)
Div1000(v) == <<"tonnes", Cents(v)>>

\* x * 1000 for an amount x in tonnes: the amount in kg
Mul1000(w) == PyFloat(w[2])

RECURSIVE SumTo(_, _)
\* sum(f[i] for i in 1..n) for a sequence f of integers
SumTo(f, n) == IF n = 0 THEN 0 ELSE f[n] + SumTo(f, n - 1)

\* calculate_emissions(energy_kwh, region) of the application, in tonnes
app_calculate_emissions(energy_kwh, business_type) ==
  LET emissions == calculate_emissions(energy_kwh, business_type, 0, 80)
  IN IF IsError(emissions) THEN emissions ELSE Div1000(emissions)

\* calculate_baseline_emissions(business_type, region), in tonnes
calculate_baseline_emissions(business_type) ==
  LET baseline_energy ==
        IF business_type \in DOMAIN APP_INDUSTRY_BASELINES
        THEN APP_INDUSTRY_BASELINES[business_type] ELSE 10000
  IN Div1000(get_baseline_emissions(baseline_energy, business_type))

\* The Calculate button of show_calculator for the business a (sme_id,
\* sme_name, industry, region) and the monthly energies energy_data: the
\* chain and the registry after the handler and the token issued (None when
\* none is issued, the exception when a calculation raises)
show_calculator(c, registry, a, energy_data, k, now, ts) ==
  LET n == Len(energy_data)
      emissions == [i \in 1..n |-> app_calculate_emissions(energy_data[i], a.region)]
      baseline_emissions == calculate_baseline_emissions(a.industry)
  IN IF \E i \in 1..n : IsError(emissions[i])
     THEN [ chain |-> c, tokens |-> registry,
            ret |-> emissions[CHOOSE i \in 1..n :
                                IsError(emissions[i])
                                  /\ \A j \in 1..(i - 1) : ~IsError(emissions[j])] ]
     ELSE
       LET reduction == [i \in 1..n |-> baseline_emissions[2] - emissions[i][2]]
           total_energy == SumTo(energy_data, n)
           total_reduction == <<"tonnes", SumTo(reduction, n)>>
       IN IF total_reduction[2] > 0
          THEN issue_green_token(c, registry,
                 [ sme_id |-> a.sme_id, sme_name |-> a.sme_name,
                   business_type |-> a.industry,
                   month |-> Text("Current Period"),
                   emissions_reduced_kg |-> Mul1000(total_reduction),
                   energy_consumed |-> total_energy ],
                 k, now, ts)
          ELSE [chain |-> c, tokens |-> registry, ret |-> PyNone]

\* ------------------------------------------------------ model inputs
SampleTimestamp == Text("2024-03-31T12:00:00")

SampleData ==
  [ sme_id |-> Text("sme001"), sme_name |-> Text("Green Bakery"),
    business_type |-> Text("Bakery"), month |-> Text("2024-q1"),
    energy_kwh |-> PyInt(100), emissions_kg |-> PyFloat(9200),
    baseline_kg |-> PyInt(150), emissions_reduced_kg |-> PyFloat(5800) ]

\* The arguments of generate_token the model draws from
TokenInputs ==
  { PyDict(SampleData),
    PyDict(SampleData @@ [timestamp |-> SampleTimestamp]),
    PyDict([SampleData EXCEPT !.baseline_kg = PyInt(0)]
             @@ [timestamp |-> SampleTimestamp]) }

\* The payloads add_block is called with: a dictionary with the fields the
\* ledger looks at in a token (token_id, hash, emissions_reduced_kg), a
\* dictionary that has no hash field, and a value that is not a dictionary
Payloads ==
  { PyDict([ token_id |-> Text("GT-SME001-2024-Q1-0001"),
             hash |-> sha256_hexdigest(Text("token1")),
             emissions_reduced_kg |-> PyFloat(5800) ]),
    PyDict([message |-> Text("memo")]),
    Text("raw") }

\* The callers of add_block that run concurrently
Threads == {"w1", "w2"}

\* A caller outside add_block: no local variable is bound
IdleThread ==
  [ pc |-> "idle", token_data |-> PyNone, latest_block |-> PyNone,
    index |-> 0, new_block |-> PyNone, overlapped |-> FALSE ]

\* No Merkle input, no calculator call, an empty registry, no call of
\* add_block in flight
InitAux ==
  /\ leaves = << >>
  /\ leaves2 = << >>
  /\ args = PyNone
  /\ tokens = << >>
  /\ threads = [t \in Threads |-> IdleThread]

\* ------------------------------------------------------------ ledger
\* BlockchainLedger(): an empty chain, then the genesis block
InitLedger ==
  /\ \E ts \in Timestamps : chain = create_genesis_block(<< >>, ts)
  /\ last = [op |-> "init"]
  /\ token_data = PyNone
  /\ token = PyNone
  /\ other = PyNone
  /\ tampered = FALSE
  /\ InitAux

AddBlock ==
  /\ Len(chain) >= 1
  /\ Len(chain) < MaxBlocks
  /\ \E p \in Payloads, ts \in NotBefore(get_latest_block(chain).timestamp) :
       /\ chain' = add_block(chain, p, ts)
       /\ last' = [op |-> "add_block", ret |-> chain'[Len(chain')]]
  /\ UNCHANGED <<token_data, token, other, tampered, aux>>

IsChainValid ==
  /\ Len(chain) >= 1
  /\ last' = [op |-> "is_chain_valid", ret |-> is_chain_valid(chain)]
  /\ UNCHANGED <<chain, token_data, token, other, tampered, aux>>

GetMerkleRoot ==
  /\ Len(chain) >= 1
  /\ last' = [op |-> "get_merkle_root", ret |-> get_merkle_root(chain)]
  /\ chain' = get_merkle_root_lists(chain).self_chain
  /\ UNCHANGED <<token_data, token, other, tampered, aux>>

\* The hashes looked up: the hash of the token payload, a hash no payload
\* has, and None (the hash of a token that has none: token.get('hash'))
LookupHashes ==
  { sha256_hexdigest(Text("token1")), sha256_hexdigest(Text("absent")), PyNone }

VerifyTokenByHash ==
  /\ Len(chain) >= 1
  /\ \E h \in LookupHashes :
       last' = [op |-> "verify_token_by_hash", arg |-> h,
                ret |-> verify_token_by_hash(chain, h)]
  /\ UNCHANGED <<chain, token_data, token, other, tampered, aux>>

GetProofOfInclusion ==
  /\ Len(chain) >= 1
  /\ \E h \in LookupHashes :
       last' = [op |-> "get_proof_of_inclusion", arg |-> h,
                ret |-> get_proof_of_inclusion(chain, h)]
  /\ UNCHANGED <<chain, token_data, token, other, tampered, aux>>

NextLedger ==
  \/ AddBlock
  \/ IsChainValid
  \/ GetMerkleRoot
  \/ VerifyTokenByHash
  \/ GetProofOfInclusion

Spec == InitLedger /\ [][NextLedger]_vars

\* ------------------------------------------- a party altering a block
\* Block objects are plain mutable objects; a behaviour of SpecTamper has
\* at most one alteration of a stored block (tampered records it).
\* The values a stored previous_hash is overwritten with
ForgedHashes(c) ==
  {Text("0"), sha256_hexdigest(Text("forged")), c[1].hash}

\* Variant of Rehash: the stored hash is left as it was
Rehash_keep_stored(b, recompute) == b

\* The block b with its stored hash set to the recomputed one when asked
Rehash(b, recompute) ==
  IF recompute THEN [b EXCEPT !.hash = calculate_hash(b)] ELSE b

\* chain[i].data = d, then (optionally) chain[i].hash = chain[i].calculate_hash()
TamperData ==
  /\ ~tampered
  /\ \E i \in 1..Len(chain), d \in Payloads \cup {GenesisData}, recompute \in BOOLEAN :
       /\ d # chain[i].data
       /\ chain' = [chain EXCEPT ![i] = Rehash([@ EXCEPT !.data = d], recompute)]
       /\ last' = [op |-> "tamper_data", index |-> i - 1, recompute |-> recompute,
                   pre_valid |-> is_chain_valid(chain)]
  /\ tampered' = TRUE
  /\ UNCHANGED <<token_data, token, other, aux>>

\* chain[i].previous_hash = h, then (optionally) the hash is recomputed
TamperPreviousHash ==
  /\ ~tampered
  /\ \E i \in 1..Len(chain), h \in ForgedHashes(chain), recompute \in BOOLEAN :
       /\ h # chain[i].previous_hash
       /\ chain' = [chain EXCEPT ![i] = Rehash([@ EXCEPT !.previous_hash = h], recompute)]
       /\ last' = [op |-> "tamper_previous_hash", index |-> i - 1,
                   recompute |-> recompute, pre_valid |-> is_chain_valid(chain)]
  /\ tampered' = TRUE
  /\ UNCHANGED <<token_data, token, other, aux>>

\* Blocks are appended, then one stored block is altered
NextTamper == (~tampered /\ AddBlock) \/ TamperData \/ TamperPreviousHash

SpecTamper == InitLedger /\ [][NextTamper]_vars

\* --------------------------------------------------- token generator
InitToken ==
  /\ token_data \in TokenInputs
  /\ token = PyNone
  /\ other = PyNone
  /\ tampered = FALSE
  /\ InitAux
  /\ chain = << >>
  /\ last = [op |-> "init"]

\* token = generate_token(token_data)
GenerateToken ==
  /\ token = PyNone
  /\ \E k \in 1..MaxSuffix, now \in Timestamps :
       token' = generate_token(token_data, k, now)
  /\ last' = [op |-> "generate_token"]
  /\ UNCHANGED <<chain, token_data, other, tampered, aux>>

\* a second run with the same token_data
GenerateAgain ==
  /\ token # PyNone
  /\ other = PyNone
  /\ \E k \in 1..MaxSuffix, now \in Timestamps :
       other' = generate_token(token_data, k, now)
  /\ last' = [op |-> "generate_again"]
  /\ UNCHANGED <<chain, token_data, token, tampered, aux>>

\* The values a field of a token is overwritten with
TamperValues ==
  { Text("tampered"), PyFloat(99900), PyFloat(0), PyNone,
    sha256_hexdigest(Text("forged")) }

\* token[f] = v
TamperField ==
  /\ token # PyNone
  /\ ~tampered
  /\ \E f \in DOMAIN token[2], v \in TamperValues :
       /\ v # token[2][f]
       /\ token' = PyDict([token[2] EXCEPT ![f] = v])
       /\ last' = [op |-> "tamper_field", field |-> f,
                   pre_valid |-> verify_token(token).ret]
  /\ tampered' = TRUE
  /\ UNCHANGED <<chain, token_data, other, aux>>

\* del token[f]
DeleteField ==
  /\ token # PyNone
  /\ ~tampered
  /\ \E f \in DOMAIN token[2] :
       /\ token' = PyDict([k \in DOMAIN token[2] \ {f} |-> token[2][k]])
       /\ last' = [op |-> "delete_field", field |-> f]
  /\ tampered' = TRUE
  /\ UNCHANGED <<chain, token_data, other, aux>>

\* verify_token(token)
VerifyToken ==
  /\ token # PyNone
  /\ LET r == verify_token(token)
     IN /\ token' = r.token
        /\ last' = [op |-> "verify_token", ret |-> r.ret]
  /\ UNCHANGED <<chain, token_data, other, tampered, aux>>

NextToken ==
  GenerateToken \/ GenerateAgain \/ TamperField \/ DeleteField \/ VerifyToken

SpecToken == InitToken /\ [][NextToken]_vars

\* ------------------------------------------------ Merkle computations
\* The hashes the Merkle computations are given: the digest of a text and
\* the digest of that digest followed by itself
HashPool ==
  LET a == sha256_hexdigest(Text("token1"))
  IN {a, sha256_hexdigest(StrCat(a, a))}

\* The lists of at most n hashes
HashLists(n) == UNION { [1..k -> HashPool] : k \in 0..n }

\* A chain whose blocks have the hashes of the list l (self.chain as
\* get_merkle_root reads it: only block.hash)
ChainWithHashes(l) == [i \in 1..Len(l) |-> [hash |-> l[i]]]

InitMerkle ==
  /\ leaves \in HashLists(MaxList)
  /\ leaves2 \in HashLists(MaxList)
  /\ chain = << >>
  /\ last = [op |-> "init"]
  /\ token_data = PyNone
  /\ token = PyNone
  /\ other = PyNone
  /\ tampered = FALSE
  /\ args = PyNone
  /\ tokens = << >>
  /\ threads = [t \in Threads |-> IdleThread]

\* get_merkle_root() of a ledger whose block hashes are leaves, and of one
\* whose block hashes are leaves2
LedgerMerkleRoot ==
  /\ last' = [op |-> "get_merkle_root",
              ret |-> get_merkle_root(ChainWithHashes(leaves)),
              ret2 |-> get_merkle_root(ChainWithHashes(leaves2))]
  /\ UNCHANGED <<chain, token_data, token, other, tampered, aux>>

\* create_merkle_root(leaves) and create_merkle_root(leaves2) of the registry
CreateMerkleRoot ==
  /\ last' = [op |-> "create_merkle_root",
              ret |-> create_merkle_root(leaves),
              ret2 |-> create_merkle_root(leaves2)]
  /\ leaves' = create_merkle_root_lists(leaves).hashes
  /\ leaves2' = create_merkle_root_lists(leaves2).hashes
  /\ UNCHANGED <<chain, token_data, token, other, tampered, args, tokens, threads>>

\* create_merkle_root(leaves) and create_merkle_root(leaves2) of the demo
DemoCreateMerkleRoot ==
  /\ last' = [op |-> "demo_create_merkle_root",
              ret |-> demo_create_merkle_root(leaves),
              ret2 |-> demo_create_merkle_root(leaves2)]
  /\ UNCHANGED <<chain, token_data, token, other, tampered, aux>>

NextMerkle == LedgerMerkleRoot \/ CreateMerkleRoot \/ DemoCreateMerkleRoot

SpecMerkle == InitMerkle /\ [][NextMerkle]_vars

\* ---------------------------------------------------- the calculator
\* The arguments calculate_emissions is called with.  The energies are
\* multiples of 8 and the renewable shares in range are 0, 50 and 100, so
\* that no product is exactly halfway between two hundredths and
\* round(x, 2) of the float is the exact product rounded.
Energies == {-1, 0, 8, 240}

RenewablePcts == {-1, 0, 50, 100, 101}

Efficiencies == {-1, 0, 69, 70, 84, 85, 100, 101}

BusinessTypes == {"Food Processing", "Retail/Commercial", "Manufacturing"}

InitCalc ==
  /\ args \in [ energy_kwh : Energies, business_type : BusinessTypes,
                renewable_pct : RenewablePcts, efficiency : Efficiencies ]
  /\ leaves = << >>
  /\ leaves2 = << >>
  /\ tokens = << >>
  /\ threads = [t \in Threads |-> IdleThread]
  /\ chain = << >>
  /\ last = [op |-> "init"]
  /\ token_data = PyNone
  /\ token = PyNone
  /\ other = PyNone
  /\ tampered = FALSE

\* calculator.calculate_emissions(**args)
CalculateEmissions ==
  /\ last' = [op |-> "calculate_emissions",
              ret |-> calculate_emissions(args.energy_kwh, args.business_type,
                                          args.renewable_pct, args.efficiency)]
  /\ UNCHANGED <<chain, token_data, token, other, tampered, aux>>

\* The emissions (kg) calculate_reduction_percentage is called with
ActualEmissions ==
  {PyFloat(0), PyFloat(15000), PyFloat(30000), PyFloat(30001), PyFloat(30002),
   PyFloat(45000)}

BaselineEmissions == {PyFloat(0), PyFloat(30000)}

\* calculator.calculate_reduction_percentage(actual, baseline)
CalculateReductionPercentage ==
  /\ \E actual \in ActualEmissions, baseline \in BaselineEmissions :
       last' = [op |-> "calculate_reduction_percentage",
                actual |-> actual, baseline |-> baseline,
                ret |-> calculate_reduction_percentage(actual, baseline)]
  /\ UNCHANGED <<chain, token_data, token, other, tampered, aux>>

NextCalc == CalculateEmissions \/ CalculateReductionPercentage

SpecCalc == InitCalc /\ [][NextCalc]_vars

\* ------------------------------------------------- the issuing flow
\* The requests issue_green_token is called with: an energy the calculator
\* rejects and four it accepts
IssueRequests ==
  [ sme_id : {Text("sme001")}, sme_name : {Text("Green Bakery")},
    business_type : {"Food Processing", "Retail/Commercial"},
    month : {Text("2024-q1")},
    emissions_reduced_kg : {PyFloat(5800)},
    energy_consumed : {-1, 8, 16, 240, 400} ]

\* issue_green_token(**a) on the session's ledger and registry.  The draws
\* of uuid4 within a session are distinct: the n-th call draws the value n.
IssueGreenToken ==
  /\ Len(tokens) < MaxIssued
  /\ \E a \in IssueRequests,
        now \in NotBefore(get_latest_block(chain).timestamp) :
       \E ts \in NotBefore(now) :
         LET r == issue_green_token(chain, tokens, a, Len(tokens) + 1, now, ts)
         IN /\ chain' = r.chain
            /\ tokens' = r.tokens
            /\ last' = [op |-> "issue_green_token",
                        energy_consumed |-> a.energy_consumed,
                        ret |-> r.ret]
  /\ UNCHANGED <<token_data, token, other, tampered, leaves, leaves2, args, threads>>

\* show_tokens: the Merkle root of the hashes of the registry's tokens
ShowTokens ==
  /\ LET all_hashes == [i \in 1..Len(tokens) |-> tokens[i][2]["hash"]]
     IN last' = [op |-> "show_tokens", ret |-> create_merkle_root(all_hashes)]
  /\ UNCHANGED <<chain, token_data, token, other, tampered, aux>>

\* blockchain.get_all_tokens()
GetAllTokens ==
  /\ Len(chain) >= 1
  /\ last' = [op |-> "get_all_tokens", ret |-> get_all_tokens(chain)]
  /\ UNCHANGED <<chain, token_data, token, other, tampered, aux>>

NextApp == IssueGreenToken \/ ShowTokens \/ GetAllTokens

SpecApp == InitLedger /\ [][NextApp]_vars

\* --------------------------------------------- the calculator page
\* The energies of a month (kWh) and the lists of monthly records entered
MonthlyEnergies == {8, 16, 24, 160}

EnergyData == UNION { [1..n -> MonthlyEnergies] : n \in 1..MaxMonths }

\* The businesses the page is filled in for
Businesses ==
  [ sme_id : {Text("sme001")}, sme_name : {Text("Green Bakery")},
    industry : DOMAIN APP_INDUSTRY_BASELINES, region : {"India"} ]

\* The Calculate button, pressed once in a session
ShowCalculator ==
  /\ tokens = << >>
  /\ \E a \in Businesses, energy_data \in EnergyData,
        now \in NotBefore(get_latest_block(chain).timestamp) :
       \E ts \in NotBefore(now) :
         LET r == show_calculator(chain, tokens, a, energy_data,
                                  Len(tokens) + 1, now, ts)
         IN /\ chain' = r.chain
            /\ tokens' = r.tokens
            /\ last' = [op |-> "show_calculator",
                        energy_data |-> energy_data, ret |-> r.ret]
  /\ UNCHANGED <<token_data, token, other, tampered, leaves, leaves2, args, threads>>

\* blockchain.export_chain()
ExportChain ==
  /\ Len(chain) >= 1
  /\ last' = [op |-> "export_chain", ret |-> export_chain(chain)]
  /\ UNCHANGED <<chain, token_data, token, other, tampered, aux>>

\* The block hashes looked up: the hash of a block of the chain and a hash
\* no block has
BlockLookups == { chain[i].hash : i \in 1..Len(chain) }
                  \cup { sha256_hexdigest(Text("absent")) }

FindBlockByHash ==
  /\ \E h \in BlockLookups :
       last' = [op |-> "find_block_by_hash", arg |-> h,
                ret |-> find_block_by_hash(chain, h)]
  /\ UNCHANGED <<chain, token_data, token, other, tampered, aux>>

VerifyBlockByHash ==
  /\ \E h \in BlockLookups :
       last' = [op |-> "verify_block_by_hash", arg |-> h,
                ret |-> verify_block_by_hash(chain, h)]
  /\ UNCHANGED <<chain, token_data, token, other, tampered, aux>>

\* The payloads that are dictionaries
DictPayloads == { p \in Payloads : isinstance_dict(p) }

\* add_block of a dictionary
AddDictBlock ==
  /\ Len(chain) < MaxBlocks
  /\ \E p \in DictPayloads,
        ts \in NotBefore(get_latest_block(chain).timestamp) :
       /\ chain' = add_block(chain, p, ts)
       /\ last' = [op |-> "add_block", ret |-> chain'[Len(chain')]]
  /\ UNCHANGED <<token_data, token, other, tampered, aux>>

\* A ledger, and a list of three hashes for create_merkle_root
InitRead ==
  /\ \E ts \in Timestamps : chain = create_genesis_block(<< >>, ts)
  /\ last = [op |-> "init"]
  /\ token_data = PyNone
  /\ token = PyNone
  /\ other = PyNone
  /\ tampered = FALSE
  /\ leaves \in { l \in HashLists(3) : Len(l) = 3 /\ l[1] = l[2] /\ l[2] = l[3] }
  /\ leaves2 = << >>
  /\ args = PyNone
  /\ tokens = << >>
  /\ threads = [t \in Threads |-> IdleThread]

\* Appends, every read operation of the ledger, and create_merkle_root
NextRead ==
  \/ AddDictBlock
  \/ CreateMerkleRoot
  \/ IsChainValid
  \/ GetMerkleRoot
  \/ FindBlockByHash
  \/ VerifyTokenByHash
  \/ VerifyBlockByHash
  \/ GetAllTokens
  \/ GetProofOfInclusion
  \/ ExportChain

SpecRead == InitRead /\ [][NextRead]_vars

\* Variant of set_token_field: the block holds a copy of the token, so
\* only the registry's dictionary changes
set_token_field_copied(c, registry, i, key, v) ==
  [ chain |-> c,
    tokens |-> [registry EXCEPT ![i] =
                  PyDict([k \in DOMAIN @[2] \cup {key} |->
                            IF k = key THEN v ELSE @[2][k]])] ]

\* st.session_state.tokens[i][key] = v.  issue_green_token gives the same
\* dictionary to add_block and to the registry, and Block keeps the
\* reference (self.data = data): the dictionary of registry token i (1-based)
\* is the payload of the block appended for it, block i+1 of the list
set_token_field(c, registry, i, key, v) ==
  LET changed == PyDict([k \in DOMAIN registry[i][2] \cup {key} |->
                           IF k = key THEN v ELSE registry[i][2][k]])
  IN [ chain |-> [c EXCEPT ![i + 1] = [@ EXCEPT !.data = changed]],
       tokens |-> [registry EXCEPT ![i] = changed] ]

\* The fields of a registry token that are overwritten
AliasFields == {"signature", "hash", "emissions_reduced_kg", "status"}

\* The values they are overwritten with
AliasValues == {Text("tampered"), PyFloat(0)}

\* tokens[i][f] = v on a token of the registry, once; no ledger operation
\* is called
SetTokenField ==
  /\ ~tampered
  /\ \E i \in 1..Len(tokens), f \in AliasFields, v \in AliasValues :
       /\ v # tokens[i][2][f]
       /\ LET r == set_token_field(chain, tokens, i, f, v)
          IN /\ chain' = r.chain
             /\ tokens' = r.tokens
       /\ last' = [op |-> "set_token_field", index |-> i, field |-> f,
                   pre_payload |-> chain[i + 1].data,
                   pre_valid |-> is_chain_valid(chain)]
  /\ tampered' = TRUE
  /\ UNCHANGED <<token_data, token, other, leaves, leaves2, args, threads>>

\* The calculator page issues a token, then a registry token is modified
NextAlias == ShowCalculator \/ SetTokenField \/ ShowTokens

SpecAlias == InitLedger /\ [][NextAlias]_vars

NextFlow == ShowCalculator \/ ShowTokens \/ ExportChain

SpecFlow == InitLedger /\ [][NextFlow]_vars

\* ------------------------------------------- concurrent add_block calls
\* add_block is not atomic: a caller reads the latest block, then the
\* length, then builds the block (Block.__init__ computes the hash), then
\* appends it; other threads run between these steps.  Each caller of
\* Threads makes one call.
InFlight(t) == threads[t].pc \in {"len", "build", "append"}

\* latest_block = self.get_latest_block(), on entry to add_block(p)
AddBlockReadLatest(t) ==
  /\ threads[t].pc = "idle"
  /\ Len(chain) >= 1
  /\ \E p \in Payloads :
       threads' =
         [u \in Threads |->
            IF u = t
            THEN [threads[t] EXCEPT !.pc = "len", !.token_data = p,
                    !.latest_block = get_latest_block(chain),
                    !.overlapped = \E v \in Threads \ {t} : InFlight(v)]
            ELSE [threads[u] EXCEPT !.overlapped = @ \/ InFlight(u)]]
  /\ UNCHANGED <<chain, last, token_data, token, other, tampered,
                 leaves, leaves2, args, tokens>>

\* index=len(self.chain)
AddBlockReadLen(t) ==
  /\ threads[t].pc = "len"
  /\ threads' = [threads EXCEPT ![t].pc = "build", ![t].index = Len(chain)]
  /\ UNCHANGED <<chain, last, token_data, token, other, tampered,
                 leaves, leaves2, args, tokens>>

\* new_block = Block(index, datetime.now().isoformat(), token_data,
\*                   latest_block.hash)
AddBlockBuild(t) ==
  /\ threads[t].pc = "build"
  /\ \E ts \in NotBefore(get_latest_block(chain).timestamp) :
       threads' = [threads EXCEPT
                     ![t].pc = "append",
                     ![t].new_block = Block(threads[t].index, ts,
                                            threads[t].token_data,
                                            threads[t].latest_block.hash)]
  /\ UNCHANGED <<chain, last, token_data, token, other, tampered,
                 leaves, leaves2, args, tokens>>

\* self.chain.append(new_block); return new_block
AddBlockAppend(t) ==
  /\ threads[t].pc = "append"
  /\ chain' = Append(chain, threads[t].new_block)
  /\ threads' = [threads EXCEPT ![t].pc = "done"]
  /\ last' = [op |-> "add_block", ret |-> threads[t].new_block]
  /\ UNCHANGED <<token_data, token, other, tampered,
                 leaves, leaves2, args, tokens>>

NextConc ==
  \/ \E t \in Threads : AddBlockReadLatest(t)
  \/ \E t \in Threads : AddBlockReadLen(t)
  \/ \E t \in Threads : AddBlockBuild(t)
  \/ \E t \in Threads : AddBlockAppend(t)
  \/ IsChainValid
  \/ GetMerkleRoot
  \/ VerifyTokenByHash

SpecConc == InitLedger /\ [][NextConc]_vars

\* ================================================================ claims
BlockHashes == [i \in 1..Len(chain) |-> chain[i].hash]

\* SHA-256 of the text left followed by the text right
H2(left, right) == PyStr(<< <<"sha256", left[2] \o right[2]>> >>)

\* C1: in every state reached by constructing the ledger and appending
\* blocks, block 0 has previous_hash "0" and the genesis marker payload, and
\* every later block's previous_hash is the stored hash of the block before.
C1_HashLinked ==
  /\ Len(chain) >= 1
  /\ chain[1].previous_hash = Text("0")
  /\ chain[1].data = GenesisData
  /\ \A i \in 2..Len(chain) : chain[i].previous_hash = chain[i - 1].hash

C1_Witness ==
  /\ Len(chain) >= 3
  /\ last.op = "add_block"
  /\ chain[3].previous_hash = chain[2].hash

\* C2: the chain starts with exactly one block of index 0; a step changes
\* the chain only by appending one block whose index is the previous
\* length, every add_block does so, and block i always has index i.
C2_AppendOnly ==
  /\ Len(chain) = 1 /\ chain[1].index = 0
  /\ [][ /\ chain' # chain =>
              /\ Len(chain') = Len(chain) + 1
              /\ SubSeq(chain', 1, Len(chain)) = chain
              /\ chain'[Len(chain')].index = Len(chain)
         /\ AddBlock => Len(chain') = Len(chain) + 1 ]_vars
  /\ [](\A i \in 1..Len(chain) : chain[i].index = i - 1)

C2_Witness ==
  /\ Len(chain) >= 2
  /\ last.op = "add_block"
  /\ last.ret.index = Len(chain) - 1

\* C3: after construction and any number of appends, is_chain_valid()
\* returns true.
C3_ValidAfterAppends ==
  /\ is_chain_valid(chain)
  /\ last.op = "is_chain_valid" => last.ret = TRUE

C3_Witness ==
  /\ Len(chain) >= 3
  /\ last.op = "is_chain_valid"
  /\ last.ret = TRUE

\* C4: from a valid chain, changing the data of any stored block (genesis
\* included) without recomputing its hash makes is_chain_valid() false.
C4_DataTamperDetected ==
  (last.op = "tamper_data" /\ ~last.recompute /\ last.pre_valid)
    => ~is_chain_valid(chain)

\* C5: from a valid chain, changing the previous_hash of a non-genesis block
\* makes is_chain_valid() false, with or without recomputing the block's
\* hash.
C5_LinkTamperDetected ==
  (last.op = "tamper_previous_hash" /\ last.index > 0 /\ last.pre_valid)
    => ~is_chain_valid(chain)

C5_Witness ==
  /\ last.op = "tamper_previous_hash"
  /\ last.index > 0
  /\ last.recompute
  /\ last.pre_valid
  /\ chain[last.index + 1].hash = calculate_hash(chain[last.index + 1])

\* Two runs of generate_token on the same token_data, which has a timestamp
TwoRuns ==
  /\ token # PyNone
  /\ other # PyNone
  /\ ~tampered
  /\ "timestamp" \in DOMAIN token_data[2]

\* C6 as stated: two runs of generate_token on the same input with a fixed
\* timestamp give tokens with equal hash.
C6_SameInputSameHash ==
  TwoRuns => token[2]["hash"] = other[2]["hash"]

\* C6 as amended: two runs on the same input with a fixed timestamp give
\* equal hashes exactly when they drew the same token_id.
C6_SameHashIffSameId ==
  TwoRuns => (token[2]["hash"] = other[2]["hash"]
                <=> token[2]["token_id"] = other[2]["token_id"])

C6_Witness ==
  /\ TwoRuns
  /\ token[2]["token_id"] = other[2]["token_id"]
  /\ token[2]["hash"] = other[2]["hash"]

\* C7 as stated: after one field of a token that verifies is changed to a
\* different value, verify_token returns false.
C7_AnyFieldTamperDetected ==
  (last.op = "tamper_field" /\ last.pre_valid) => ~verify_token(token).ret

\* C7 as amended: after one field other than signature is changed,
\* verify_token returns false; after only signature is changed it still
\* returns true.
C7_TamperDetectedExceptSignature ==
  (last.op = "tamper_field" /\ last.pre_valid)
    => (verify_token(token).ret <=> last.field = "signature")

C7_Witness ==
  /\ last.op = "tamper_field"
  /\ last.pre_valid
  /\ last.field = "emissions_reduced_kg"
  /\ ~verify_token(token).ret

\* C8: verify_token of an unmodified generated token returns true: the hash
\* recomputed over every field except hash and signature is the stored one.
C8_RoundTrip ==
  /\ (token # PyNone /\ ~tampered) =>
        /\ verify_token(token).ret
        /\ token[2]["hash"] =
             sha256_hexdigest(PyStr(json_dumps(PyDict(
               [k \in DOMAIN token[2] \ {"hash", "signature"} |-> token[2][k]]))))
  /\ other # PyNone => verify_token(other).ret
  /\ (last.op = "verify_token" /\ ~tampered) => last.ret = TRUE

C8_Witness ==
  /\ last.op = "verify_token"
  /\ ~tampered
  /\ last.ret = TRUE
  /\ token[2]["energy_kwh"] = PyFloat(10000)

\* C9: a call of verify_token leaves the token as it was, returns a boolean,
\* returns false when the hash field is missing or differs from the
\* recomputed hash, and returns what the previous call on the same token
\* returned.
C9_VerifyIsPure ==
  [][ last'.op = "verify_token" =>
        /\ token' = token
        /\ last'.ret \in BOOLEAN
        /\ "hash" \notin DOMAIN token[2] => last'.ret = FALSE
        /\ ("hash" \in DOMAIN token[2] /\ token[2]["hash"] # _generate_hash(token))
             => last'.ret = FALSE
        /\ last.op = "verify_token" => last'.ret = last.ret ]_vars

C9_Witness ==
  /\ last.op = "verify_token"
  /\ last.ret = FALSE
  /\ "hash" \notin DOMAIN token[2]

RECURSIVE MerkleRule(_)
\* The root as the rule states it: until one hash remains, extend an odd
\* level by a copy of its last hash and replace each pair by its hash.
MerkleRule(level) ==
  IF Len(level) = 1 THEN level[1]
  ELSE LET even == IF Len(level) % 2 = 1
                   THEN level \o <<level[Len(level)]>> ELSE level
       IN MerkleRule([j \in 1..(Len(even) \div 2) |->
                        H2(even[2 * j - 1], even[2 * j])])

\* C10: the Merkle root of a non-empty list of hashes is the result of the
\* duplicate-last-then-pair rule; one hash is returned unchanged, [a,b,c]
\* gives H(H(a+b)+H(c+c)) and [a,b,c,d] gives H(H(a+b)+H(c+d)).
C10_MerkleRoot ==
  LET h == BlockHashes
      root == get_merkle_root(chain)
  IN /\ root = MerkleRule(h)
     /\ demo_create_merkle_root(h) = MerkleRule(h)
     /\ Len(h) = 1 => root = h[1]
     /\ Len(h) = 2 => root = H2(h[1], h[2])
     /\ Len(h) = 3 => root = H2(H2(h[1], h[2]), H2(h[3], h[3]))
     /\ Len(h) = 4 => root = H2(H2(h[1], h[2]), H2(h[3], h[4]))
     /\ Len(h) = 5 => root = H2(H2(H2(h[1], h[2]), H2(h[3], h[4])),
                                H2(H2(h[5], h[5]), H2(h[5], h[5])))
     /\ last.op = "get_merkle_root" => last.ret = root

C10_Witness ==
  /\ last.op = "get_merkle_root"
  /\ Len(chain) = 3
  /\ last.ret = H2(H2(chain[1].hash, chain[2].hash),
                   H2(chain[3].hash, chain[3].hash))

\* The operations that compute a Merkle root
MerkleOps == {"get_merkle_root", "create_merkle_root", "demo_create_merkle_root"}

\* C11 as stated: each Merkle computation over a zero-element input returns
\* the hash of the fixed empty-marker string.
C11_EmptyGivesMarkerHash ==
  (last.op \in MerkleOps /\ leaves = << >>)
    => last.ret = sha256_hexdigest(Text("empty"))

\* C12: for every non-empty list of hashes the ledger's loop and the
\* registry's recursive create_merkle_root return the same root.
C12_SameAlgorithm ==
  /\ leaves # << >> =>
       get_merkle_root(ChainWithHashes(leaves)) = create_merkle_root(leaves)
  /\ (last.op = "create_merkle_root" /\ leaves # << >>) =>
       last.ret = get_merkle_root(ChainWithHashes(leaves))
  /\ (last.op = "get_merkle_root" /\ leaves # << >>) =>
       last.ret = create_merkle_root(leaves)

C12_Witness ==
  /\ last.op = "create_merkle_root"
  /\ Len(leaves) = 3
  /\ leaves[1] # leaves[3]
  /\ last.ret = get_merkle_root(ChainWithHashes(leaves))

\* The lists leaves and leaves2 have the same length and differ in exactly
\* one position
OnePositionApart ==
  /\ Len(leaves) = Len(leaves2)
  /\ Cardinality({i \in 1..Len(leaves) : leaves[i] # leaves2[i]}) = 1

\* C13: two lists of hashes of the same length that differ in exactly one
\* position have different Merkle roots, in the ledger's computation and in
\* the registry's.
C13_OneChangeChangesRoot ==
  OnePositionApart =>
    /\ get_merkle_root(ChainWithHashes(leaves))
         # get_merkle_root(ChainWithHashes(leaves2))
    /\ create_merkle_root(leaves) # create_merkle_root(leaves2)
    /\ last.op \in {"get_merkle_root", "create_merkle_root"}
         => last.ret # last.ret2

C13_Witness ==
  /\ OnePositionApart
  /\ Len(leaves) = 4
  /\ leaves[4] # leaves2[4]
  /\ last.op = "get_merkle_root"
  /\ last.ret # last.ret2

\* C14 as stated: any two different lists of hashes have different Merkle
\* roots.
C14_DifferentListsDifferentRoots ==
  (leaves # leaves2 /\ last.op \in {"get_merkle_root", "create_merkle_root"})
    => last.ret # last.ret2

\* C14 as amended: two different lists of hashes of the same length have
\* different Merkle roots; a list of odd length of three or more and the
\* same list with its last hash appended once more have the same root.
C14_SameLengthDifferentRoots ==
  last.op \in {"get_merkle_root", "create_merkle_root"}
    => /\ (Len(leaves) = Len(leaves2) /\ leaves # leaves2)
            => last.ret # last.ret2
       /\ (Len(leaves) % 2 = 1 /\ Len(leaves) >= 3
             /\ leaves2 = Append(leaves, leaves[Len(leaves)]))
            => last.ret = last.ret2

C14_Witness ==
  /\ last.op = "create_merkle_root"
  /\ Len(leaves) = 3
  /\ leaves2 = Append(leaves, leaves[3])
  /\ last.ret = last.ret2

\* The payload d is a dictionary that has a hash field
HasHashField(d) == isinstance_dict(d) /\ "hash" \in DOMAIN d[2]

\* C15: once a payload with a hash has been appended with add_block,
\* verify_token_by_hash of that hash is true right after the append and in
\* every later state, whatever is appended afterwards.
C15_FoundForever ==
  /\ [](\A i \in 2..Len(chain) :
          HasHashField(chain[i].data)
            => verify_token_by_hash(chain, chain[i].data[2]["hash"]))
  /\ [][ /\ (AddBlock /\ HasHashField(last'.ret.data))
              => verify_token_by_hash(chain', last'.ret.data[2]["hash"])
         /\ \A h \in LookupHashes :
              verify_token_by_hash(chain, h) => verify_token_by_hash(chain', h)
         /\ (last'.op = "verify_token_by_hash"
               /\ \E i \in 2..Len(chain) :
                    HasHashField(chain[i].data)
                      /\ chain[i].data[2]["hash"] = last'.arg)
              => last'.ret = TRUE ]_vars

C15_Witness ==
  /\ last.op = "verify_token_by_hash"
  /\ last.ret = TRUE
  /\ Len(chain) >= 4
  /\ HasHashField(chain[2].data)
  /\ last.arg = chain[2].data[2]["hash"]
  /\ ~HasHashField(chain[3].data)
  /\ ~HasHashField(chain[4].data)

\* The (1-based) positions of the blocks whose payload has a hash field
\* equal to h
Holders(h) ==
  { i \in 1..Len(chain) :
      HasHashField(chain[i].data) /\ chain[i].data[2]["hash"] = h }

\* C16 as stated: get_proof_of_inclusion(h) returns verified = false exactly
\* when no block payload has a hash field equal to h, which is exactly when
\* verify_token_by_hash(h) is false; otherwise it returns verified = true
\* with the index, hash, previous_hash and timestamp of the first such block,
\* the Merkle root and the validity of the chain.
C16_ProofOfInclusion ==
  last.op = "get_proof_of_inclusion" =>
    /\ last.ret.verified = verify_token_by_hash(chain, last.arg)
    /\ last.ret.verified = (Holders(last.arg) # {})
    /\ last.ret.verified =>
         LET i == CHOOSE j \in Holders(last.arg) :
                    \A k \in Holders(last.arg) : j <= k
         IN /\ last.ret.block_index = i - 1
            /\ last.ret.block_hash = chain[i].hash
            /\ last.ret.previous_hash = chain[i].previous_hash
            /\ last.ret.timestamp = chain[i].timestamp
            /\ last.ret.merkle_root = get_merkle_root(chain)
            /\ last.ret.chain_valid = is_chain_valid(chain)

\* The arguments are in range: energy_kwh >= 0 and both percentages in
\* [0, 100]
ArgsInRange ==
  /\ args.energy_kwh >= 0
  /\ 0 <= args.renewable_pct /\ args.renewable_pct <= 100
  /\ 0 <= args.efficiency /\ args.efficiency <= 100

\* C17: calculate_emissions fails with a validation error exactly when
\* energy_kwh < 0 or renewable_pct or efficiency is outside [0, 100]; for
\* every other input, the boundaries 0 and 100 included, it returns a
\* number.
C17_ValidationExactly ==
  last.op = "calculate_emissions" =>
    /\ IsError(last.ret) <=> ~ArgsInRange
    /\ IsError(last.ret) => last.ret[2] = "ValueError"
    /\ ~IsError(last.ret) => last.ret[1] = "float"

C17_Witness ==
  /\ last.op = "calculate_emissions"
  /\ args.energy_kwh = 0
  /\ args.renewable_pct = 100
  /\ args.efficiency = 100
  /\ last.ret = PyFloat(0)

\* The multiplier of the band an efficiency falls in, in hundredths
BandMultiplier(e) == IF e >= 85 THEN 85 ELSE IF e >= 70 THEN 100 ELSE 120

\* C19: with arguments in range the result is
\* (energy * grid_fraction * 0.92 + energy * renewable_fraction * 0.05)
\* times the multiplier of the efficiency band (0.85 from 85, 1.0 from 70,
\* 1.2 below), rounded to 2 decimals; for the same energy and renewable
\* share a higher efficiency never gives higher emissions.
C19_EfficiencyBands ==
  (last.op = "calculate_emissions" /\ ArgsInRange) =>
    /\ last.ret =
         PyFloat(RoundDiv(
           (args.energy_kwh * (100 - args.renewable_pct) * 92
              + args.energy_kwh * args.renewable_pct * 5)
             * BandMultiplier(args.efficiency), 10000))
    /\ \A e \in {x \in Efficiencies : 0 <= x /\ x <= 100} :
         e > args.efficiency =>
           calculate_emissions(args.energy_kwh, args.business_type,
                               args.renewable_pct, e)[2] <= last.ret[2]

C19_Witness ==
  /\ last.op = "calculate_emissions"
  /\ args.energy_kwh = 240
  /\ args.renewable_pct = 50
  /\ args.efficiency = 85
  /\ last.ret = PyFloat(9894)

C18_ErrorLeavesStateAlone ==
  [][ last'.op = "issue_green_token" =>
        IF IsError(last'.ret)
        THEN /\ chain' = chain
             /\ tokens' = tokens
             /\ last'.energy_consumed < 0
        ELSE /\ Len(chain') = Len(chain) + 1
             /\ SubSeq(chain', 1, Len(chain)) = chain
             /\ chain'[Len(chain')].data = last'.ret
             /\ tokens' = Append(tokens, last'.ret)
             /\ last'.ret[2]["emissions_kg"] =
                  calculate_emissions(last'.energy_consumed, "default", 0, 80)
             /\ last'.ret[2]["baseline_kg"][1] = "float"
             /\ verify_token(last'.ret).ret ]_vars

C18_Witness ==
  /\ last.op = "issue_green_token"
  /\ IsError(last.ret)
  /\ Len(chain) = 2
  /\ Len(tokens) = 1
  /\ chain[2].data = tokens[1]

\* The number a calculation returned, in hundredths
Hundredths(v) == IF v[1] = "int" THEN 100 * v[2] ELSE v[2]

C22_ReductionMatchesFields ==
  \A i \in 1..Len(tokens) :
    LET t == tokens[i][2]
        baseline == Cents(t["baseline_kg"])
        actual == Cents(t["emissions_kg"])
    IN /\ Cents(t["emissions_reduced_kg"]) = baseline - actual
       /\ baseline > 0 =>
            t["reduction_percentage"][2] = RoundDiv10000(baseline - actual, baseline)
       /\ t["reduction_percentage"][2] <= 10000

\* No call of add_block began while another call was in flight
Serial == \A t \in Threads : ~threads[t].overlapped

\* C23: with at most one append in flight at a time, every block a reader
\* finds in the chain has its hash and its link to the predecessor, the
\* block a caller is about to insert is complete, and is_chain_valid is
\* true before and after the insertion (and returns true to a reader).
C23_PublishedComplete ==
  Serial =>
    /\ \A i \in 1..Len(chain) :
         /\ chain[i].hash # PyNone
         /\ chain[i].hash = calculate_hash(chain[i])
         /\ i > 1 => chain[i].previous_hash = chain[i - 1].hash
    /\ \A t \in Threads :
         threads[t].pc = "append" =>
           /\ threads[t].new_block.hash = calculate_hash(threads[t].new_block)
           /\ threads[t].new_block.previous_hash = chain[Len(chain)].hash
           /\ threads[t].new_block.index = Len(chain)
    /\ is_chain_valid(chain)
    /\ last.op = "is_chain_valid" => last.ret = TRUE

C23_Witness ==
  /\ Serial
  /\ last.op = "is_chain_valid"
  /\ last.ret = TRUE
  /\ Len(chain) = 2
  /\ \E t \in Threads : threads[t].pc = "append"

\* Both callers read the latest block and the length of the chain of n
\* blocks, before either inserted
BothReadBeforeInsert(n) ==
  \A t \in Threads :
    /\ threads[t].pc \in {"build", "append", "done"}
    /\ threads[t].index = n
    /\ threads[t].latest_block = chain[n]

\* C24: when the calls of add_block do not overlap, the indexes increase by
\* one, every block links to its predecessor and is_chain_valid is true;
\* when two callers both read the latest block and the length before
\* either inserts, the chain they leave has two blocks with the same index
\* and the same previous_hash, and is_chain_valid is false.
C24_AppendsNeedExclusion ==
  /\ Serial =>
       /\ \A i \in 1..Len(chain) : chain[i].index = i - 1
       /\ \A i \in 2..Len(chain) : chain[i].previous_hash = chain[i - 1].hash
       /\ is_chain_valid(chain)
  /\ \A n \in 1..Len(chain) :
       (BothReadBeforeInsert(n) /\ \A t \in Threads : threads[t].pc = "done")
         => /\ Len(chain) = n + 2
            /\ chain[n + 1].index = n
            /\ chain[n + 2].index = n
            /\ chain[n + 1].previous_hash = chain[n].hash
            /\ chain[n + 2].previous_hash = chain[n].hash
            /\ ~is_chain_valid(chain)

C24_Witness ==
  /\ BothReadBeforeInsert(1)
  /\ \A t \in Threads : threads[t].pc = "done"
  /\ Len(chain) = 3
  /\ chain[2].index = chain[3].index
  /\ ~is_chain_valid(chain)

\* C25: export_chain lists the blocks in chain order with index, timestamp,
\* data, previous_hash and hash; rebuilding each block from the first four
\* reproduces the exported hash, and the rebuilt chain is valid and has the
\* block hashes and the Merkle root of the exported chain.
C25_ExportRoundTrip ==
  last.op = "export_chain" =>
    LET entries == json_loads(last.ret)[2]
        rebuilt == rebuild_chain(last.ret)
    IN /\ Len(entries) = Len(chain)
       /\ \A i \in 1..Len(chain) :
            /\ entries[i] = to_dict(chain[i])
            /\ DOMAIN entries[i][2] =
                 {"index", "timestamp", "data", "previous_hash", "hash"}
            /\ rebuilt[i].hash = entries[i][2]["hash"]
            /\ rebuilt[i] = chain[i]
       /\ is_chain_valid(rebuilt)
       /\ get_merkle_root(rebuilt) = get_merkle_root(chain)

C25_Witness ==
  /\ last.op = "export_chain"
  /\ Len(chain) = 2
  /\ Len(tokens) = 1
  /\ rebuild_chain(last.ret)[2].data = tokens[1]
  /\ rebuild_chain(last.ret)[2].hash = chain[2].hash

\* C26: a lookup miss is reported as false: verify_token_by_hash(h) returns
\* true only if a block appended with add_block has a payload whose hash
\* field equals h, for every h including None, and get_proof_of_inclusion
\* never reports the genesis block (block_index 0) as the containing block.
C26_MissIsFalse ==
  /\ (last.op = "verify_token_by_hash" /\ last.ret = TRUE)
       => \E i \in 2..Len(chain) :
            HasHashField(chain[i].data)
              /\ chain[i].data[2]["hash"] = last.arg
  /\ (last.op = "get_proof_of_inclusion" /\ last.ret.verified)
       => last.ret.block_index # 0

\* C27: in every state reached through issue_green_token the registry and
\* the ledger agree: the chain has one block more than the registry has
\* tokens, the i-th registry token is the payload of block i+1, the registry
\* equals get_all_tokens(), and every registry token's hash is found by
\* verify_token_by_hash.
C27_RegistryMatchesLedger ==
  /\ Len(chain) = Len(tokens) + 1
  /\ \A i \in 1..Len(tokens) :
       /\ chain[i + 1].data = tokens[i]
       /\ verify_token_by_hash(chain, tokens[i][2]["hash"])
  /\ get_all_tokens(chain) = tokens
  /\ last.op = "get_all_tokens" => last.ret = tokens

C27_Witness ==
  /\ last.op = "get_all_tokens"
  /\ Len(tokens) = 2
  /\ Len(last.ret) = 2
  /\ tokens[1] # tokens[2]

\* The read operations of the ledger
ReadOps ==
  { "is_chain_valid", "get_merkle_root", "find_block_by_hash",
    "verify_token_by_hash", "verify_block_by_hash", "get_all_tokens",
    "get_proof_of_inclusion", "export_chain" }

\* C28: every read operation of the ledger leaves the chain unchanged (same
\* length, same fields of every block); the duplicate get_merkle_root
\* appends on an odd level goes to its own list of hashes, not to the chain,
\* and create_merkle_root leaves the list it is given as it was.
C28_ReadsLeaveChain ==
  [][ /\ last'.op \in ReadOps =>
           /\ Len(chain') = Len(chain)
           /\ \A i \in 1..Len(chain) : chain'[i] = chain[i]
      /\ last'.op = "get_merkle_root" =>
           /\ Len(get_merkle_root_lists(chain).hashes) % 2 = 0
                \/ Len(chain) = 1
           /\ chain' = chain
      /\ last'.op = "create_merkle_root" =>
           /\ Len(create_merkle_root_lists(leaves).new_level) = 2
           /\ leaves' = leaves /\ chain' = chain ]_vars

C28_Witness ==
  /\ last.op = "get_merkle_root"
  /\ Len(chain) = 3
  /\ Len(get_merkle_root_lists(chain).hashes) = 4
  /\ get_merkle_root_lists(chain).hashes[4] = chain[3].hash

\* C29: from a valid chain, changing the data of a non-genesis block and
\* setting that block's hash to its recomputed value makes is_chain_valid()
\* false when the block has a successor and leaves it true when the block
\* is the last block of the chain.
C29_RehashedTamper ==
  (/\ last.op = "tamper_data"
   /\ last.recompute
   /\ last.index >= 1
   /\ last.pre_valid)
    => /\ chain[last.index + 1].hash = calculate_hash(chain[last.index + 1])
       /\ last.index + 1 < Len(chain) =>
            /\ ~is_chain_valid(chain)
            /\ chain[last.index + 2].previous_hash # chain[last.index + 1].hash
       /\ last.index + 1 = Len(chain) => is_chain_valid(chain)

C29_Witness ==
  /\ last.op = "tamper_data"
  /\ last.recompute
  /\ last.pre_valid
  /\ last.index = 1
  /\ Len(chain) = 3
  /\ ~is_chain_valid(chain)

\* The other case of C29 is reached as well: the last block is tampered
\* with and rehashed, and the chain is still valid
C29_WitnessLast ==
  /\ last.op = "tamper_data"
  /\ last.recompute
  /\ last.index = 2
  /\ Len(chain) = 3
  /\ is_chain_valid(chain)

\* C30 (as stated): the registry token and the block payload are one
\* object: changing a field of a registry token changes the payload of its
\* block, is_chain_valid() becomes false and verify_token of that token
\* becomes false; while no registry token is modified, is_chain_valid() is
\* true and every registry token passes verify_token.
C30_SharedPayload ==
  /\ ~tampered =>
       /\ is_chain_valid(chain)
       /\ \A i \in 1..Len(tokens) : verify_token(tokens[i]).ret
  /\ last.op = "set_token_field" =>
       /\ chain[last.index + 1].data = tokens[last.index]
       /\ chain[last.index + 1].data # last.pre_payload
       /\ last.pre_valid /\ ~is_chain_valid(chain)
       /\ ~verify_token(tokens[last.index]).ret

\* C30 (amended): as above, but verify_token of the modified token becomes
\* false exactly when the changed field is not signature: verify_token
\* leaves hash and signature out of the recomputed hash and compares only
\* the hash.
C30_SharedPayloadExceptSignature ==
  /\ ~tampered =>
       /\ is_chain_valid(chain)
       /\ \A i \in 1..Len(tokens) : verify_token(tokens[i]).ret
  /\ last.op = "set_token_field" =>
       /\ chain[last.index + 1].data = tokens[last.index]
       /\ chain[last.index + 1].data # last.pre_payload
       /\ last.pre_valid /\ ~is_chain_valid(chain)
       /\ verify_token(tokens[last.index]).ret <=> (last.field = "signature")

C30_Witness ==
  /\ last.op = "set_token_field"
  /\ last.field = "emissions_reduced_kg"
  /\ Len(tokens) = 1
  /\ chain[2].data[2]["emissions_reduced_kg"] = PyFloat(0)
  /\ last.pre_payload[2]["emissions_reduced_kg"] # PyFloat(0)
  /\ ~is_chain_valid(chain)

====
